---- MODULE Spec2Model ----
(***************************************************************************)
(* A model of serial.rs (src/lib.rs, the Linux configuration): a handle    *)
(* that owns a descriptor and a cached termios structure, its getters and  *)
(* setters, and the kernel-side termios of the device they talk to.        *)
(*                                                                         *)
(* A flag word (c_iflag, c_oflag, c_cflag, c_lflag) is the set of the      *)
(* positions of its 1-bits, so  a & b  is  a \cap b,  a | b  is  a \cup b  *)
(* and  !a  is  Word \ a.                                                  *)
(***************************************************************************)
EXTENDS Integers, FiniteSets, Sequences, TLC

(***************************************************************************)
(* Bounds of the model.                                                    *)
(***************************************************************************)
\* Spec: set_blocking_mode is tried with the modes (b, 255 - b), b in 0..MaxMode
MaxMode == 0
\* SpecBlocking: set_blocking_mode is tried with bytes and deciseconds in
\* 0..MaxByte and 255
MaxByte == 3
\* Spec: set_baud_rate is tried with the first MaxBaud rates of the enumeration
\* and with its last one
MaxBaud == 0
\* SpecFault, SpecBlocking: at most MaxFaults pushes of a setter are made to fail
MaxFaults == 1

(***************************************************************************)
(* mod termios (declared at lib.rs:17, the file itself is not part of the  *)
(* sources at hand): the Linux values of the constants lib.rs imports.     *)
(***************************************************************************)
Word == 0..31

FAILURE == -1
SUCCESS == 0

\* c_iflag
IGNBRK == {0}
BRKINT == {1}
IGNPAR == {2}
PARMRK == {3}
ISTRIP == {5}
INLCR == {6}
IGNCR == {7}
ICRNL == {8}
IXON == {10}
IXANY == {11}
IXOFF == {12}
\* c_oflag
OPOST == {0}
\* c_cflag
CSIZE == {4, 5}
CS5 == {}
CS6 == {4}
CS7 == {5}
CS8 == {4, 5}
CSTOPB == {6}
CREAD == {7}
PARENB == {8}
PARODD == {9}
HUPCL == {10}
CRTSCTS == {31}
\* c_lflag
ISIG == {0}
ICANON == {1}
ECHO == {3}
ECHONL == {6}
IEXTEN == {15}
\* c_cc slots
VINTR == 0
VTIME == 5
VMIN == 6
CcSlots == {VINTR, VTIME, VMIN}

\* the largest value of a u8 (BlockingMode.bytes, BlockingMode.deciseconds)
U8Max == 255

\* cfmakeraw(&mut termios)
cfmakeraw(t) ==
    [t EXCEPT !.c_iflag = @ \ (IGNBRK \cup BRKINT \cup PARMRK \cup ISTRIP
                                 \cup INLCR \cup IGNCR \cup ICRNL \cup IXON),
              !.c_oflag = @ \ OPOST,
              !.c_lflag = @ \ (ECHO \cup ECHONL \cup ICANON \cup ISIG \cup IEXTEN),
              !.c_cflag = (@ \ (CSIZE \cup PARENB)) \cup CS8]

\* cfsetispeed / cfsetospeed / cfsetspeed refuse a value that is no speed code
ValidSpeeds == (0..15) \cup (4097..4111)

\* cfsetspeed(&mut termios, speed): <<return value, termios afterwards>>
cfsetspeed(t, speed) ==
    IF speed \in ValidSpeeds
    THEN <<SUCCESS, [t EXCEPT !.c_ispeed = speed, !.c_ospeed = speed]>>
    ELSE <<FAILURE, t>>

\* cfsetispeed(&mut termios, speed)
cfsetispeed(t, speed) ==
    IF speed \in ValidSpeeds
    THEN <<SUCCESS, [t EXCEPT !.c_ispeed = speed]>>
    ELSE <<FAILURE, t>>

\* cfsetospeed(&mut termios, speed)
cfsetospeed(t, speed) ==
    IF speed \in ValidSpeeds
    THEN <<SUCCESS, [t EXCEPT !.c_ospeed = speed]>>
    ELSE <<FAILURE, t>>

(***************************************************************************)
(* The enumerations of lib.rs and their conversions.                       *)
(***************************************************************************)
\* enum BaudRate, in the order of its declaration: <<variant, discriminant>>
BaudRate ==
    << <<"B0", 0>>, <<"B50", 1>>, <<"B75", 2>>, <<"B110", 3>>, <<"B134", 4>>,
       <<"B150", 5>>, <<"B200", 6>>, <<"B300", 7>>, <<"B600", 8>>,
       <<"B1K2", 9>>, <<"B1K8", 10>>, <<"B2K4", 11>>, <<"B4K8", 12>>,
       <<"B9K6", 13>>, <<"B19K2", 14>>, <<"B38K4", 15>>, <<"B57K6", 4097>>,
       <<"B115K2", 4098>>, <<"B230K4", 4099>>, <<"B460K8", 4100>>,
       <<"B500K", 4101>>, <<"B576K", 4102>>, <<"B921K6", 4103>>,
       <<"B1M", 4104>>, <<"B1M152", 4105>>, <<"B1M5", 4106>>, <<"B2M", 4107>>,
       <<"B2M5", 4108>>, <<"B3M", 4109>>, <<"B3M5", 4110>>, <<"B4M", 4111>>  >>

BaudRates == {BaudRate[i][1] : i \in DOMAIN BaudRate}

\* variant |-> discriminant, and discriminant |-> variant
BaudRateDiscriminant ==
    [rate \in BaudRates |->
        BaudRate[CHOOSE i \in DOMAIN BaudRate : BaudRate[i][1] = rate][2]]
BaudRateVariant ==
    [n \in {BaudRate[i][2] : i \in DOMAIN BaudRate} |->
        BaudRate[CHOOSE i \in DOMAIN BaudRate : BaudRate[i][2] = n][1]]

\* rate as speed_t
BaudRate_as_speed_t(rate) == BaudRateDiscriminant[rate]

\* FromPrimitive::from_u32 for BaudRate: the variant with that discriminant,
\* "None" when there is none
BaudRate_from_u32(n) ==
    IF n \in DOMAIN BaudRateVariant THEN BaudRateVariant[n] ELSE "None"

\* enum DataBits: <<variant, discriminant>>
DataBits ==
    << <<"Data5", CS5>>, <<"Data6", CS6>>, <<"Data7", CS7>>, <<"Data8", CS8>> >>

DataBitsValues == {DataBits[i][1] : i \in DOMAIN DataBits}

\* bits as u32
DataBits_as_u32(bits) ==
    DataBits[CHOOSE i \in DOMAIN DataBits : DataBits[i][1] = bits][2]

\* FromPrimitive::from_u32 for DataBits
DataBits_from_u32(w) ==
    IF \E i \in DOMAIN DataBits : DataBits[i][2] = w
    THEN DataBits[CHOOSE i \in DOMAIN DataBits : DataBits[i][2] = w][1]
    ELSE "None"

\* enum Direction
Direction == {"BothDirections", "Input", "Output"}
\* enum FlowControl
FlowControl == {"HardwareControl", "NoFlowControl", "SoftwareControl"}
\* enum Parity
Parity == {"EvenParity", "NoParity", "OddParity"}
\* enum StopBits
StopBits == {"Stop1", "Stop2"}

(***************************************************************************)
(* The getters' decoding of a fetched termios, and the setters' mutation   *)
(* of the cached one.                                                      *)
(***************************************************************************)
\* baud_rate: Ok((input, output)), or a panic on an unrecognized value
baud_rate_decode(t) ==
    LET input == BaudRate_from_u32(t.c_ispeed)
        output == BaudRate_from_u32(t.c_ospeed)
    IN  IF input = "None" \/ output = "None"
        THEN [res |-> "Panic", val |-> <<input, output>>]
        ELSE [res |-> "Ok", val |-> <<input, output>>]

\* blocking_mode with the two slots exchanged
blocking_mode_decode_swapped(t) ==
    [bytes |-> t.c_cc[VTIME], deciseconds |-> t.c_cc[VMIN]]

\* blocking_mode
blocking_mode_decode(t) ==
    [bytes |-> t.c_cc[VMIN], deciseconds |-> t.c_cc[VTIME]]

\* data_bits: Ok(bits), or a panic on an unrecognized value
data_bits_decode(t) ==
    LET bits == DataBits_from_u32(t.c_cflag \cap CSIZE)
    IN  [res |-> IF bits = "None" THEN "Panic" ELSE "Ok", val |-> bits]

\* flow_control with the software bits tested before CRTSCTS
flow_control_decode_software_first(t) ==
    IF t.c_iflag \cap (IXANY \cup IXOFF \cup IXON) # {} THEN "SoftwareControl"
    ELSE IF t.c_cflag \cap CRTSCTS # {} THEN "HardwareControl"
    ELSE "NoFlowControl"

\* flow_control
flow_control_decode(t) ==
    IF t.c_cflag \cap CRTSCTS # {} THEN "HardwareControl"
    ELSE IF t.c_iflag \cap (IXANY \cup IXOFF \cup IXON) = {} THEN "NoFlowControl"
    ELSE "SoftwareControl"

\* parity
parity_decode(t) ==
    LET enb == t.c_cflag \cap PARENB # {}
        odd == t.c_cflag \cap PARODD # {}
    IN  IF enb /\ odd THEN "OddParity"
        ELSE IF enb /\ ~odd THEN "EvenParity"
        ELSE "NoParity"

\* stop_bits
stop_bits_decode(t) ==
    IF t.c_cflag \cap CSTOPB = {} THEN "Stop1" ELSE "Stop2"

\* set_baud_rate with BothDirections setting the input speed alone
set_baud_rate_mut_input_only(t, direction, rate) ==
    CASE direction = "BothDirections" -> cfsetispeed(t, BaudRate_as_speed_t(rate))
      [] direction = "Input" -> cfsetispeed(t, BaudRate_as_speed_t(rate))
      [] direction = "Output" -> cfsetospeed(t, BaudRate_as_speed_t(rate))

\* set_baud_rate: <<return value of the cfset*speed call, termios afterwards>>
set_baud_rate_mut(t, direction, rate) ==
    CASE direction = "BothDirections" -> cfsetspeed(t, BaudRate_as_speed_t(rate))
      [] direction = "Input" -> cfsetispeed(t, BaudRate_as_speed_t(rate))
      [] direction = "Output" -> cfsetospeed(t, BaudRate_as_speed_t(rate))

\* set_blocking_mode
set_blocking_mode_mut(t, mode) ==
    [t EXCEPT !.c_cc = [[@ EXCEPT ![VMIN] = mode.bytes]
                           EXCEPT ![VTIME] = mode.deciseconds]]

\* set_data_bits without the masking of CSIZE
set_data_bits_mut_no_mask(t, bits) ==
    [t EXCEPT !.c_cflag = @ \cup DataBits_as_u32(bits)]

\* set_data_bits
set_data_bits_mut(t, bits) ==
    [t EXCEPT !.c_cflag = (@ \cap (Word \ CSIZE)) \cup DataBits_as_u32(bits)]

\* set_flow_control with SoftwareControl leaving CRTSCTS as it is
set_flow_control_mut_keeps_crtscts(t, flow) ==
    CASE flow = "HardwareControl" ->
            [t EXCEPT !.c_cflag = @ \cup CRTSCTS,
                      !.c_iflag = @ \cap (Word \ (IXANY \cup IXOFF \cup IXON))]
      [] flow = "NoFlowControl" ->
            [t EXCEPT !.c_cflag = @ \cap (Word \ CRTSCTS),
                      !.c_iflag = @ \cap (Word \ (IXANY \cup IXOFF \cup IXON))]
      [] flow = "SoftwareControl" ->
            [t EXCEPT !.c_iflag = @ \cup (IXANY \cup IXOFF \cup IXON)]

\* set_flow_control
set_flow_control_mut(t, flow) ==
    CASE flow = "HardwareControl" ->
            [t EXCEPT !.c_cflag = @ \cup CRTSCTS,
                      !.c_iflag = @ \cap (Word \ (IXANY \cup IXOFF \cup IXON))]
      [] flow = "NoFlowControl" ->
            [t EXCEPT !.c_cflag = @ \cap (Word \ CRTSCTS),
                      !.c_iflag = @ \cap (Word \ (IXANY \cup IXOFF \cup IXON))]
      [] flow = "SoftwareControl" ->
            [t EXCEPT !.c_cflag = @ \cap (Word \ CRTSCTS),
                      !.c_iflag = @ \cup (IXANY \cup IXOFF \cup IXON)]

\* set_parity with EvenParity leaving PARODD as it is
set_parity_mut_keeps_parodd(t, parity) ==
    CASE parity = "EvenParity" -> [t EXCEPT !.c_cflag = @ \cup PARENB]
      [] parity = "NoParity" -> [t EXCEPT !.c_cflag = @ \cap (Word \ PARENB)]
      [] parity = "OddParity" -> [t EXCEPT !.c_cflag = @ \cup (PARENB \cup PARODD)]

\* set_parity
set_parity_mut(t, parity) ==
    CASE parity = "EvenParity" ->
            [t EXCEPT !.c_cflag = (@ \cup PARENB) \cap (Word \ PARODD)]
      [] parity = "NoParity" ->
            [t EXCEPT !.c_cflag = @ \cap (Word \ PARENB)]
      [] parity = "OddParity" ->
            [t EXCEPT !.c_cflag = @ \cup (PARENB \cup PARODD)]

\* set_stop_bits with Stop2 assigning the word instead of ORing into it
set_stop_bits_mut_assigns(t, bits) ==
    CASE bits = "Stop1" -> [t EXCEPT !.c_cflag = @ \cap (Word \ CSTOPB)]
      [] bits = "Stop2" -> [t EXCEPT !.c_cflag = CSTOPB]

\* set_stop_bits
set_stop_bits_mut(t, bits) ==
    CASE bits = "Stop1" -> [t EXCEPT !.c_cflag = @ \cap (Word \ CSTOPB)]
      [] bits = "Stop2" -> [t EXCEPT !.c_cflag = @ \cup CSTOPB]

(***************************************************************************)
(* The state: one SerialPort handle, the descriptor it owns, and the       *)
(* device behind it.                                                       *)
(***************************************************************************)
VARIABLES
    handle,     \* "None" (no SerialPort value), "Open", "Closed" (dropped)
    file,       \* the descriptor of the last open(2): "none", "open", "closed"
    closes,     \* how many times that descriptor was closed
    termios,    \* SerialPort.termios, the cached structure
    kernel,     \* the termios the kernel holds for the device
    last,       \* the last call: [op, arg, res, val, after]
    faults      \* how many pushes of a setter have failed

vars == <<handle, file, closes, termios, kernel, last, faults>>

\* Termios::new()
Termios_new ==
    [c_iflag |-> {}, c_oflag |-> {}, c_cflag |-> {}, c_lflag |-> {},
     c_cc |-> [s \in CcSlots |-> 0], c_ispeed |-> 0, c_ospeed |-> 0]

\* What the device may be set to before the program opens it: a terminal in
\* its cooked default, and one a previous user left with odd parity, two
\* stop bits, RTS/CTS and XOFF/XANY set.
DeviceStates ==
    { [c_iflag |-> ICRNL \cup IXON, c_oflag |-> OPOST,
       c_cflag |-> CS8 \cup CREAD \cup HUPCL,
       c_lflag |-> ISIG \cup ICANON \cup ECHO \cup IEXTEN,
       c_cc |-> [s \in CcSlots |-> IF s = VINTR THEN 3 ELSE IF s = VMIN THEN 1 ELSE 0],
       c_ispeed |-> 15, c_ospeed |-> 15],
      [c_iflag |-> IGNPAR \cup IXOFF \cup IXANY, c_oflag |-> {},
       c_cflag |-> CS7 \cup CSTOPB \cup CREAD \cup PARENB \cup PARODD \cup CRTSCTS,
       c_lflag |-> ISIG,
       c_cc |-> [s \in CcSlots |-> IF s = VINTR THEN 3 ELSE IF s = VMIN THEN 4 ELSE 2],
       c_ispeed |-> 13, c_ospeed |-> 4098] }

\* The paths open is tried with: a serial terminal, a regular file, no file.
Tty == "/dev/ttyS0"
RegularFile == "/etc/hostname"
Missing == "/dev/nonexistent"
Paths == {Tty, RegularFile, Missing}

\* libc::open(path, flags, 0): FAILURE, or a descriptor
libc_open(device) == IF device = Missing THEN FAILURE ELSE 3

\* What tcgetattr may return on a descriptor of that path: ENOTTY on a
\* regular file, success or an I/O error on a terminal
tcgetattr_results(device) ==
    IF device = Tty THEN {SUCCESS, FAILURE} ELSE {FAILURE}

\* What tcsetattr may return in a setter: a failure while the model's budget
\* of failed pushes lasts
tcsetattr_results == IF faults < MaxFaults THEN {SUCCESS, FAILURE} ELSE {SUCCESS}

\* FileDesc::new(fd, false)
close_on_drop_false == FALSE

\* FileDesc::new(fd, true): close_on_drop
close_on_drop == TRUE

\* Drop of the FileDesc: <<descriptor state, closes>> afterwards
FileDesc_drop ==
    IF close_on_drop THEN <<"closed", closes + 1>> ELSE <<file, closes>>

\* The record of a call: its name, argument, Result ("Ok", "Err", "Panic") and
\* returned value; for a getter, after is <<argument, Result>> of the call just
\* before it when that call was the setter of the same parameter, else <<>>
CallAfter(op, arg, res, val, after) ==
    [op |-> op, arg |-> arg, res |-> res, val |-> val, after |-> after]

Call(op, arg, res, val) == CallAfter(op, arg, res, val, <<>>)

After(setter) == IF last.op = setter THEN <<last.arg, last.res>> ELSE <<>>

Init ==
    /\ handle = "None"
    /\ file = "none"
    /\ closes = 0
    /\ termios = Termios_new
    /\ kernel \in DeviceStates
    /\ last = Call("none", "none", "none", "none")
    /\ faults = 0

\* SerialPort::fetch with tcgetattr returning r: Ok(termios) or Err
fetch(r) ==
    IF r = FAILURE THEN [res |-> "Err", termios |-> Termios_new]
    ELSE [res |-> "Ok", termios |-> kernel]

\* update with a push that reaches the kernel although it reports a failure
update_applies_on_failure(t, r) ==
    kernel' = t

\* SerialPort::update on the structure t with tcsetattr returning r
update(t, r) ==
    kernel' = IF r = FAILURE THEN kernel ELSE t

\* The Result of update
update_res(r) == IF r = FAILURE THEN "Err" ELSE "Ok"

\* open without the try! around the push of the raw structure
open_outcome_unchecked_update(device, r_get, r_set) ==
    IF libc_open(device) = FAILURE THEN "open"
    ELSE IF r_get = FAILURE THEN "fetch"
    ELSE "Ok"

\* SerialPort::open, the step it returns at: "open" (libc::open failed),
\* "fetch" (tcgetattr failed), "update" (the push of the raw structure
\* failed), or "Ok"
open_outcome(device, r_get, r_set) ==
    IF libc_open(device) = FAILURE THEN "open"
    ELSE IF r_get = FAILURE THEN "fetch"
    ELSE IF r_set = FAILURE THEN "update"
    ELSE "Ok"

\* SerialPort::open(device, access)
open(device, r_get, r_set) ==
    LET outcome == open_outcome(device, r_get, r_set)
        raw == cfmakeraw(fetch(r_get).termios)
    IN
    /\ handle = "None"
    /\ UNCHANGED faults
    /\ last' = Call("open", device, IF outcome = "Ok" THEN "Ok" ELSE "Err", "none")
    /\ handle' = IF outcome = "Ok" THEN "Open" ELSE "None"
    /\ termios' = IF outcome = "Ok" THEN raw ELSE termios
       \* the push is reached once the descriptor is open and the fetch succeeded
    /\ IF outcome \in {"open", "fetch"} THEN UNCHANGED kernel ELSE update(raw, r_set)
       \* no descriptor; or the FileDesc made at line 53 is dropped on the early
       \* return; or it lives on in the handle
    /\ file' = CASE outcome = "open" -> "none"
                 [] outcome \in {"fetch", "update"} ->
                        (IF close_on_drop THEN "closed" ELSE "open")
                 [] outcome = "Ok" -> "open"
    /\ closes' = IF outcome \in {"fetch", "update"} /\ close_on_drop THEN 1 ELSE 0

\* The handle goes out of scope: its FileDesc is dropped
drop ==
    /\ handle = "Open"
    /\ handle' = "Closed"
    /\ file' = FileDesc_drop[1]
    /\ closes' = FileDesc_drop[2]
    /\ last' = Call("drop", "none", "Ok", "none")
    /\ UNCHANGED <<termios, kernel, faults>>

\* A getter of the parameter that setter sets: try!(self.fetch()), then the
\* decoding of the fetched structure
Getter(op, setter, r, decoded) ==
    /\ handle = "Open"
    /\ last' = IF fetch(r).res = "Err"
               THEN CallAfter(op, "none", "Err", "none", After(setter))
               ELSE CallAfter(op, "none", decoded.res, decoded.val, After(setter))
    /\ UNCHANGED <<handle, file, closes, termios, kernel, faults>>

\* SerialPort::baud_rate
baud_rate(r) ==
    Getter("baud_rate", "set_baud_rate", r, baud_rate_decode(fetch(r).termios))

\* SerialPort::data_bits
data_bits(r) ==
    Getter("data_bits", "set_data_bits", r, data_bits_decode(fetch(r).termios))

\* SerialPort::flow_control
flow_control(r) ==
    Getter("flow_control", "set_flow_control", r,
           [res |-> "Ok", val |-> flow_control_decode(fetch(r).termios)])

\* SerialPort::parity
parity(r) ==
    Getter("parity", "set_parity", r,
           [res |-> "Ok", val |-> parity_decode(fetch(r).termios)])

\* SerialPort::stop_bits
stop_bits(r) ==
    Getter("stop_bits", "set_stop_bits", r,
           [res |-> "Ok", val |-> stop_bits_decode(fetch(r).termios)])

\* SerialPort::blocking_mode: no fetch, the cached structure is read
blocking_mode ==
    /\ handle = "Open"
    /\ last' = CallAfter("blocking_mode", "none", "Ok",
                         blocking_mode_decode(termios), After("set_blocking_mode"))
    /\ UNCHANGED <<handle, file, closes, termios, kernel, faults>>

\* A setter: the cached structure becomes t, then one update
Setter(op, arg, t, r) ==
    /\ handle = "Open"
    /\ termios' = t
    /\ update(t, r)
    /\ faults' = IF r = FAILURE THEN faults + 1 ELSE faults
    /\ last' = Call(op, arg, update_res(r), "none")
    /\ UNCHANGED <<handle, file, closes>>

\* SerialPort::set_baud_rate
set_baud_rate(direction, rate, r) ==
    LET m == set_baud_rate_mut(termios, direction, rate) IN
    IF m[1] = FAILURE
    THEN /\ handle = "Open"
         /\ termios' = m[2]
         /\ last' = Call("set_baud_rate", <<direction, rate>>, "Err", "none")
         /\ UNCHANGED <<handle, file, closes, kernel, faults>>
    ELSE Setter("set_baud_rate", <<direction, rate>>, m[2], r)

\* SerialPort::set_blocking_mode
set_blocking_mode(mode, r) ==
    Setter("set_blocking_mode", mode, set_blocking_mode_mut(termios, mode), r)

\* SerialPort::set_data_bits
set_data_bits(bits, r) ==
    Setter("set_data_bits", bits, set_data_bits_mut(termios, bits), r)

\* SerialPort::set_flow_control
set_flow_control(flow, r) ==
    Setter("set_flow_control", flow, set_flow_control_mut(termios, flow), r)

\* SerialPort::set_parity
set_parity(p, r) ==
    Setter("set_parity", p, set_parity_mut(termios, p), r)

\* SerialPort::set_stop_bits
set_stop_bits(bits, r) ==
    Setter("set_stop_bits", bits, set_stop_bits_mut(termios, bits), r)

\* Reader::read: a pass-through to the descriptor, which succeeds or fails
read(ok) ==
    /\ handle = "Open"
    /\ last' = Call("read", "none", IF ok THEN "Ok" ELSE "Err", "none")
    /\ UNCHANGED <<handle, file, closes, termios, kernel, faults>>

\* Writer::write
write(ok) ==
    /\ handle = "Open"
    /\ last' = Call("write", "none", IF ok THEN "Ok" ELSE "Err", "none")
    /\ UNCHANGED <<handle, file, closes, termios, kernel, faults>>

\* Another process reconfigures the terminal (stty): the kernel's structure
\* changes and the handle's cached one does not
stty(iflag, cflag) ==
    /\ handle = "Open"
    /\ kernel' = [kernel EXCEPT
           !.c_iflag = (@ \ (IXANY \cup IXOFF \cup IXON)) \cup iflag,
           !.c_cflag = (@ \ (CRTSCTS \cup PARENB \cup PARODD \cup CSTOPB)) \cup cflag]
    /\ last' = Call("stty", "none", "Ok", "none")
    /\ UNCHANGED <<handle, file, closes, termios, faults>>

\* The life of the handle and the calls that take no configuration value
Lifecycle ==
    \/ \E device \in Paths : \E r_get \in tcgetattr_results(device),
          r_set \in {SUCCESS, FAILURE} : open(device, r_get, r_set)
    \/ drop
    \/ \E ok \in BOOLEAN : read(ok)
    \/ \E ok \in BOOLEAN : write(ok)

Getters ==
    \/ \E r \in {SUCCESS, FAILURE} : baud_rate(r)
    \/ blocking_mode
    \/ \E r \in {SUCCESS, FAILURE} : data_bits(r)
    \/ \E r \in {SUCCESS, FAILURE} : flow_control(r)
    \/ \E r \in {SUCCESS, FAILURE} : parity(r)
    \/ \E r \in {SUCCESS, FAILURE} : stop_bits(r)

\* The setters, tried with the given values and tcsetattr results
Setters(rates, modes, databits, flows, parities, stopbits, results) ==
    \/ \E d \in Direction, rate \in rates, r \in results : set_baud_rate(d, rate, r)
    \/ \E mode \in modes, r \in results : set_blocking_mode(mode, r)
    \/ \E bits \in databits, r \in results : set_data_bits(bits, r)
    \/ \E flow \in flows, r \in results : set_flow_control(flow, r)
    \/ \E p \in parities, r \in results : set_parity(p, r)
    \/ \E bits \in stopbits, r \in results : set_stop_bits(bits, r)

(***************************************************************************)
(* Spec: every call of the handle, every value of the four flag            *)
(* enumerations, a bounded choice of rates and blocking modes; every push  *)
(* of a setter succeeds.                                                   *)
(***************************************************************************)
BaudInputs == {BaudRate[i][1] : i \in 1..MaxBaud} \cup {BaudRate[Len(BaudRate)][1]}
ModeInputs == {[bytes |-> b, deciseconds |-> U8Max - b] : b \in 0..MaxMode}

Next ==
    \/ Lifecycle
    \/ Getters
    \/ Setters(BaudInputs, ModeInputs, DataBitsValues, FlowControl, Parity,
               StopBits, {SUCCESS})

Spec == Init /\ [][Next]_vars

(***************************************************************************)
(* SpecFault: every call of the handle, two values per setter, and pushes  *)
(* that fail.                                                              *)
(***************************************************************************)
NextFault ==
    \/ Lifecycle
    \/ Getters
    \/ Setters({"B9K6"}, {[bytes |-> 0, deciseconds |-> U8Max]},
               {"Data7", "Data8"}, {"NoFlowControl", "SoftwareControl"},
               {"NoParity", "OddParity"}, StopBits, tcsetattr_results)

SpecFault == Init /\ [][NextFault]_vars

(***************************************************************************)
(* SpecBaud: set_baud_rate with every rate and direction.                  *)
(***************************************************************************)
NextBaud ==
    \/ Lifecycle
    \/ \E r \in {SUCCESS, FAILURE} : baud_rate(r)
    \/ \E d \in Direction, rate \in BaudRates : set_baud_rate(d, rate, SUCCESS)

SpecBaud == Init /\ [][NextBaud]_vars

(***************************************************************************)
(* SpecBlocking: set_blocking_mode with every pair of the bounded bytes,    *)
(* and pushes that fail.                                                   *)
(***************************************************************************)
ByteInputs == (0..MaxByte) \cup {U8Max}

NextBlocking ==
    \/ Lifecycle
    \/ blocking_mode
    \/ \E mode \in [bytes : ByteInputs, deciseconds : ByteInputs],
          r \in tcsetattr_results : set_blocking_mode(mode, r)

SpecBlocking == Init /\ [][NextBlocking]_vars

(***************************************************************************)
(* SpecExternal: the getters on a terminal that another process            *)
(* reconfigures.                                                           *)
(***************************************************************************)
NextExternal ==
    \/ Lifecycle
    \/ Getters
    \/ \E iflag \in SUBSET (IXANY \cup IXOFF \cup IXON),
          cflag \in SUBSET (CRTSCTS \cup PARENB \cup PARODD \cup CSTOPB) :
          stty(iflag, cflag)

SpecExternal == Init /\ [][NextExternal]_vars

(***************************************************************************)
(* The properties.                                                         *)
(***************************************************************************)
SetterOps ==
    {"set_baud_rate", "set_blocking_mode", "set_data_bits", "set_flow_control",
     "set_parity", "set_stop_bits"}

\* A getter ran right after a setter of its parameter that returned Ok
AfterOk(getter) ==
    /\ last.op = getter
    /\ last.res = "Ok"
    /\ last.after # <<>>
    /\ last.after[2] = "Ok"

\* C1: flow_control() right after a successful set_flow_control(f) returns f,
\* for each of the three values and whatever the structure held before.
C1_FlowControlRoundTrip ==
    AfterOk("flow_control") => last.val = last.after[1]

\* SoftwareControl read back on a device that had RTS/CTS set at open
C1_Witness ==
    /\ AfterOk("flow_control")
    /\ last.after[1] = "SoftwareControl"
    /\ CSTOPB \subseteq kernel.c_cflag
    /\ IGNPAR \subseteq kernel.c_iflag

\* C2: flow_control() decodes the fetched structure in a fixed order: CRTSCTS
\* set gives HardwareControl whatever the software bits are; else none of
\* IXANY, IXOFF, IXON set gives NoFlowControl; else SoftwareControl.
C2_FlowControlPrecedence ==
    (last.op = "flow_control" /\ last.res = "Ok") =>
        LET hard == 31 \in kernel.c_cflag
            soft == {10, 11, 12} \cap kernel.c_iflag
        IN  /\ hard => last.val = "HardwareControl"
            /\ (~hard /\ soft = {}) => last.val = "NoFlowControl"
            /\ (~hard /\ soft # {}) => last.val = "SoftwareControl"

\* CRTSCTS together with one software bit reads as HardwareControl
C2_Witness ==
    /\ last.op = "flow_control"
    /\ last.res = "Ok"
    /\ last.val = "HardwareControl"
    /\ kernel.c_iflag \cap {10, 11, 12} = {12}

\* C3: parity() right after a successful set_parity(p) returns p, also when
\* PARODD is still set from an earlier OddParity.
C3_ParityRoundTrip ==
    AfterOk("parity") => last.val = last.after[1]

\* NoParity read back while PARODD is still set
C3_Witness ==
    /\ AfterOk("parity")
    /\ last.after[1] = "NoParity"
    /\ PARODD \subseteq kernel.c_cflag

\* C4: baud_rate() right after a successful set_baud_rate(BothDirections, b)
\* returns (b, b), for every rate of the enumeration.
C4_BaudRateRoundTrip ==
    (AfterOk("baud_rate") /\ last.after[1][1] = "BothDirections") =>
        last.val = <<last.after[1][2], last.after[1][2]>>

\* B57K6, whose code is not its position in the enumeration, in both directions
C4_Witness ==
    /\ AfterOk("baud_rate")
    /\ last.after[1] = <<"BothDirections", "B57K6">>
    /\ last.val = <<"B57K6", "B57K6">>

\* C5: data_bits() right after a successful set_data_bits(d) returns d: no bit
\* of the previous CSIZE value survives.
C5_DataBitsRoundTrip ==
    AfterOk("data_bits") => last.val = last.after[1]

\* Data5 read back: both CSIZE bits, set by open's raw mode, were cleared
C5_Witness ==
    /\ AfterOk("data_bits")
    /\ last.after[1] = "Data5"

\* C6: blocking_mode() right after set_blocking_mode(mode) returns mode, bytes
\* from VMIN and deciseconds from VTIME; it always returns Ok and what it
\* returns is read from the cached structure, so it returns mode also when the
\* setter's push failed.
C6_BlockingModeRoundTrip ==
    last.op = "blocking_mode" =>
        /\ last.res = "Ok"
        /\ last.val.bytes = termios.c_cc[VMIN]
        /\ last.val.deciseconds = termios.c_cc[VTIME]
        /\ last.after # <<>> => last.val = last.after[1]

\* (255, 0) read back
C6_Witness ==
    /\ last.op = "blocking_mode"
    /\ last.after = <<[bytes |-> U8Max, deciseconds |-> 0], "Ok">>
    /\ last.val = [bytes |-> U8Max, deciseconds |-> 0]

\* C7: open returns a handle exactly when libc::open, the first fetch and the
\* push of the raw structure all succeed; otherwise it returns Err, there is
\* no handle, the kernel structure is as before, and a descriptor that was
\* opened is closed; on a path that does not exist no descriptor is opened.
C7_OpenAllOrNothing ==
    [][\A device \in Paths : \A r_get \in tcgetattr_results(device),
                                r_set \in {SUCCESS, FAILURE} :
          open(device, r_get, r_set) =>
             IF device = Tty /\ r_get = SUCCESS /\ r_set = SUCCESS
             THEN /\ last'.res = "Ok"
                  /\ handle' = "Open"
                  /\ file' = "open"
             ELSE /\ last'.res = "Err"
                  /\ handle' = "None"
                  /\ kernel' = kernel
                  /\ IF device = Missing
                     THEN file' = "none" /\ closes' = 0
                     ELSE file' = "closed" /\ closes' = 1]_vars

\* open failed after the descriptor was opened, and the descriptor is closed
C7_Witness ==
    /\ last.op = "open"
    /\ last.arg = Tty
    /\ last.res = "Err"
    /\ handle = "None"
    /\ file = "closed"

\* The structure a setter call leaves in the cache
Mutated(op, t, arg) ==
    CASE op = "set_baud_rate" -> set_baud_rate_mut(t, arg[1], arg[2])[2]
      [] op = "set_blocking_mode" -> set_blocking_mode_mut(t, arg)
      [] op = "set_data_bits" -> set_data_bits_mut(t, arg)
      [] op = "set_flow_control" -> set_flow_control_mut(t, arg)
      [] op = "set_parity" -> set_parity_mut(t, arg)
      [] op = "set_stop_bits" -> set_stop_bits_mut(t, arg)

\* C8: a setter whose push fails returns Err, leaves the kernel structure as
\* it was and the cached structure mutated; a setter whose push succeeds
\* leaves the kernel structure equal to the cached one.
C8_PushFailure ==
    [][(handle = "Open" /\ last'.op \in SetterOps) =>
          /\ termios' = Mutated(last'.op, termios, last'.arg)
          /\ last'.res = "Err" => (kernel' = kernel /\ faults' = faults + 1)
          /\ last'.res = "Ok" => (kernel' = termios' /\ faults' = faults)
          /\ last'.res \in {"Ok", "Err"}]_vars

\* a setter returned Err and the cache now differs from the kernel
C8_Witness ==
    /\ last.op = "set_data_bits"
    /\ last.res = "Err"
    /\ data_bits_decode(termios).val = last.arg
    /\ data_bits_decode(kernel).val # last.arg

\* C9: while the handle is Open its descriptor is open and was never closed,
\* whatever calls were made and whether they failed; once the handle is
\* dropped the descriptor is closed, exactly once, and the handle stays
\* Closed.
C9_HandleLifecycle ==
    /\ [](handle \in {"None", "Open", "Closed"})
    /\ [](handle = "Open" => (file = "open" /\ closes = 0))
    /\ [](handle = "Closed" => (file = "closed" /\ closes = 1))
    /\ [][handle' = "Open" => handle \in {"None", "Open"}]_vars
    /\ [][handle = "Closed" => handle' = "Closed"]_vars

\* the handle was dropped after a setter had failed
C9_Witness ==
    /\ handle = "Closed"
    /\ file = "closed"
    /\ faults > 0

\* The structure with the field of a setter blanked
Blank(t, op) ==
    CASE op = "set_baud_rate" -> [t EXCEPT !.c_ispeed = 0, !.c_ospeed = 0]
      [] op = "set_blocking_mode" ->
            [t EXCEPT !.c_cc = [[@ EXCEPT ![VMIN] = 0] EXCEPT ![VTIME] = 0]]
      [] op = "set_data_bits" -> [t EXCEPT !.c_cflag = @ \ CSIZE]
      [] op = "set_flow_control" ->
            [t EXCEPT !.c_cflag = @ \ CRTSCTS,
                      !.c_iflag = @ \ (IXANY \cup IXOFF \cup IXON)]
      [] op = "set_parity" -> [t EXCEPT !.c_cflag = @ \ (PARENB \cup PARODD)]
      [] op = "set_stop_bits" -> [t EXCEPT !.c_cflag = @ \ CSTOPB]

\* What the getter of the parameter that setter sets returns for kernel
\* structure k and cached structure c
Reading(setter, k, c) ==
    CASE setter = "set_baud_rate" -> baud_rate_decode(k)
      [] setter = "set_blocking_mode" -> blocking_mode_decode(c)
      [] setter = "set_data_bits" -> data_bits_decode(k)
      [] setter = "set_flow_control" -> flow_control_decode(k)
      [] setter = "set_parity" -> parity_decode(k)
      [] setter = "set_stop_bits" -> stop_bits_decode(k)

\* C10: a setter changes nothing of the cached structure outside its own
\* field, and when the cache equals the kernel structure before a successful
\* setter call, the getters of all other parameters return what they
\* returned before it.
C10_SetterFrame ==
    [][(handle = "Open" /\ last'.op \in SetterOps) =>
          /\ Blank(termios', last'.op) = Blank(termios, last'.op)
          /\ (termios = kernel /\ last'.res = "Ok") =>
                \A other \in SetterOps \ {last'.op} :
                    Reading(other, kernel', termios') = Reading(other, kernel, termios)
      ]_vars

\* set_stop_bits(Stop2) succeeded on a handle configured away from raw mode's
\* values, and those values are still there
C10_Witness ==
    /\ last.op = "set_stop_bits"
    /\ last.arg = "Stop2"
    /\ last.res = "Ok"
    /\ termios = kernel
    /\ parity_decode(kernel) = "OddParity"
    /\ flow_control_decode(kernel) = "SoftwareControl"
    /\ data_bits_decode(kernel).val = "Data6"
    /\ blocking_mode_decode(termios).deciseconds = U8Max
    /\ baud_rate_decode(kernel).val[1] = "B4M"
====
